---- MODULE Spec2Model ----
(***************************************************************************)
(* Model of markup-proc-macro/src/generate.rs: the lowering of a template  *)
(* tree into the token list of the generated Display::fmt body, and the    *)
(* execution of that body against a text sink.                             *)
(*                                                                         *)
(* Text is a sequence of one-character strings.  A dynamic expression is   *)
(* an opaque name; rendering it writes the one-element chunk <<name>>.     *)
(***************************************************************************)
EXTENDS Integers, Sequences, FiniteSets, TLC

(* ------------------------------ bounds --------------------------------- *)
\* largest number of nodes of a template of the general family
MaxNodes == 2
\* largest number of items the iterable of a For yields in one render
MaxIter == 2

(* ------------------------- the template AST ---------------------------- *)
LitStr(v) == [lit |-> TRUE, value |-> v, name |-> ""]
Dyn(n) == [lit |-> FALSE, value |-> <<>>, name |-> n]

TextString(s) == [type |-> "Text", kind |-> "String", string |-> s]
TextExpr(e) == [type |-> "Text", kind |-> "Expr", expr |-> e]
Attr(n, v, b) == [name |-> n, value |-> v, bool |-> b]
Elem(n, i, cs, as, ch, cl) ==
    [type |-> "Element", name |-> n, id |-> i, classes |-> cs,
     attributes |-> as, children |-> ch, close |-> cl]
Clause(t, c) == [test |-> t, consequent |-> c]
IfNode(cs, d) == [type |-> "If", clauses |-> cs, default |-> d]
ForNode(e, b) == [type |-> "For", expr |-> e, body |-> b]

\* the strings the templates are built of
AB == <<"a", "&", "b">>
Strings == {AB, <<"<", ">", "\"">>, <<>>}
Leaves ==
    {TextString(s) : s \in Strings}
    \cup {TextExpr(LitStr(AB)), TextExpr(Dyn("$x"))}

\* Element shells of the general family (children are filled in below)
Shells ==
    {[name |-> <<"p">>, id |-> <<>>, classes |-> <<>>, attributes |-> <<>>, close |-> TRUE],
     [name |-> <<"b", "r">>, id |-> <<>>, classes |-> <<>>, attributes |-> <<>>, close |-> FALSE]}

\* Shapes of an If: the number of clauses and whether a default is present
\* (an Option is a sequence of length 0 or 1).  Clause i is tested by IfTest(i).
IfShapes == {[n |-> 1, d |-> 0], [n |-> 1, d |-> 1], [n |-> 2, d |-> 1]}
IfTest(i) == IF i = 1 THEN Dyn("$c") ELSE Dyn("$d")

RECURSIVE ExactForest(_), ExactNode(_), Bodies(_, _)

\* sequences of k forests holding n nodes together
Bodies(k, n) ==
    IF k = 0 THEN (IF n = 0 THEN {<<>>} ELSE {})
    ELSE UNION {{<<f>> \o rest : f \in ExactForest(m), rest \in Bodies(k - 1, n - m)}
                : m \in 0..n}

\* the nodes made of exactly n nodes, themselves included
ExactNode(n) ==
    (IF n = 1 THEN Leaves ELSE {})
    \cup {Elem(sh.name, sh.id, sh.classes, sh.attributes, ch, sh.close)
            : sh \in Shells, ch \in ExactForest(n - 1)}
    \cup UNION {{IfNode([i \in 1..sh.n |-> Clause(IfTest(i), bs[i])],
                        IF sh.d = 1 THEN <<bs[sh.n + 1]>> ELSE <<>>)
                   : bs \in Bodies(sh.n + sh.d, n - 1)} : sh \in IfShapes}
    \cup {ForNode(Dyn("$xs"), b) : b \in ExactForest(n - 1)}

\* the node sequences made of exactly n nodes
ExactForest(n) ==
    IF n = 0 THEN {<<>>}
    ELSE UNION {{<<x>> \o rest : x \in ExactNode(m), rest \in ExactForest(n - m)}
                : m \in 1..n}

General == UNION {ExactForest(n) : n \in 0..MaxNodes}

\* One element with every combination of id, classes, attributes and close
RichIds == {<<>>, <<Dyn("$i")>>, <<LitStr(<<"\"", "i">>)>>}
RichClasses == {<<>>, <<Dyn("$k")>>, <<LitStr(<<"k", "<">>), Dyn("$k")>>}
RichAttrs ==
    {<<>>,
     <<Attr(<<"c", "k">>, Dyn("$c"), TRUE)>>,
     <<Attr(<<"h">>, LitStr(<<"&">>), FALSE), Attr(<<"c", "k">>, Dyn("$c"), TRUE)>>,
     <<Attr(<<"c", "k">>, Dyn("$d"), TRUE), Attr(<<"h">>, Dyn("$u"), FALSE)>>}
RichChildren == {<<>>, <<TextString(AB)>>}
Rich ==
    {<<Elem(<<"a">>, i, cs, as, ch, cl)>>
        : i \in RichIds, cs \in RichClasses, as \in RichAttrs,
          ch \in RichChildren, cl \in BOOLEAN}

\* One If with one or two clauses, with and without a default, every body
\* empty, static or dynamic
ChainBodies == {<<>>, <<TextString(AB)>>, <<TextExpr(Dyn("$x"))>>, <<TextExpr(Dyn("$y"))>>}
Chains ==
    {<<IfNode(<<Clause(Dyn("$c"), b1)>>, d)>>
        : b1 \in ChainBodies, d \in {<<>>} \cup {<<b>> : b \in ChainBodies}}
    \cup {<<IfNode(<<Clause(Dyn("$c"), b1), Clause(Dyn("$d"), b2)>>, d)>>
        : b1 \in ChainBodies, b2 \in ChainBodies,
          d \in {<<>>} \cup {<<b>> : b \in ChainBodies}}

\* Scopes inside scopes, with text before, inside, between and after them
Nested ==
    {<<x,
       IfNode(<<Clause(Dyn("$c"),
                       <<y,
                         ForNode(Dyn("$xs"),
                                 <<Elem(<<"p">>, <<>>, <<>>, <<>>,
                                        <<IfNode(<<Clause(Dyn("$d"), <<y>>)>>, <<>>), x>>,
                                        TRUE)>>),
                         y>>),
                Clause(Dyn("$d"), <<x>>)>>,
              <<<<y>>>>),
       y>> : x \in Leaves, y \in Leaves}

\* the root node sequences of the templates checked
Templates == General \cup Rich \cup Chains \cup Nested

(* ----------------------------- tokens ---------------------------------- *)
\* quote! { __writer.write_str(#buffer)?; }
WriteStr(buffer) == [t |-> "write_str", s |-> buffer]
\* quote!(markup::Render::render(&(#expr), __writer)?;)
RenderExpr(e) == [t |-> "render", e |-> e.name]
\* quote!(if #test), quote!(else if #test), quote!(else), quote!(for #pat in #expr)
IfTok(test) == [t |-> "if", e |-> test.name]
ElseIfTok(test) == [t |-> "else if", e |-> test.name]
ElseTok == [t |-> "else"]
ForTok(e) == [t |-> "for", e |-> e.name]
\* proc_macro2::Group::new(Delimiter::Brace, ..)
Group(body) == [t |-> "group", body |-> body]

(* ----------------------------- Builder --------------------------------- *)
BuilderDefault == [tokens |-> <<>>, buffer |-> <<>>]

\* a raw that writes its fragment at once instead of buffering it
rawEager(self, s) ==
    [tokens |-> self.tokens
                \o (IF self.buffer # <<>> THEN <<WriteStr(self.buffer)>> ELSE <<>>)
                \o <<WriteStr(s)>>,
     buffer |-> <<>>]

raw(self, s) == [self EXCEPT !.buffer = @ \o s]

EscapeCh(ch) ==
    CASE ch = "&" -> <<"&", "a", "m", "p", ";">>
      [] ch = "<" -> <<"&", "l", "t", ";">>
      [] ch = ">" -> <<"&", "g", "t", ";">>
      [] ch = "\"" -> <<"&", "q", "u", "o", "t", ";">>
      [] OTHER -> <<ch>>

\* a str that lets the double quote through
RECURSIVE strNoQuote(_, _)
strNoQuote(self, s) ==
    IF s = <<>> THEN self
    ELSE strNoQuote([self EXCEPT !.buffer =
                        @ \o (IF Head(s) = "\"" THEN <<"\"">> ELSE EscapeCh(Head(s)))],
                    Tail(s))

RECURSIVE str(_, _)
str(self, s) ==
    IF s = <<>> THEN self
    ELSE str([self EXCEPT !.buffer = @ \o EscapeCh(Head(s))], Tail(s))

\* an extend that appends the tokens without flushing the pending text
extendNoFlush(self, iter) == [self EXCEPT !.tokens = @ \o iter]

\* an extend that writes the pending text even when there is none
extendAlwaysFlush(self, iter) ==
    [tokens |-> Append(self.tokens, WriteStr(self.buffer)) \o iter, buffer |-> <<>>]

extend(self, iter) ==
    LET flushed ==
            IF self.buffer # <<>>
            THEN [tokens |-> Append(self.tokens, WriteStr(self.buffer)), buffer |-> <<>>]
            ELSE self
    IN  [flushed EXCEPT !.tokens = @ \o iter]

\* an expr that folds a literal without escaping it
exprRawLit(self, e) ==
    IF e.lit THEN raw(self, e.value)
    ELSE extend(self, <<RenderExpr(e)>>)

expr(self, e) ==
    IF e.lit THEN str(self, e.value)
    ELSE extend(self, <<RenderExpr(e)>>)

\* a finish that forgets the final flush
finishNoFlush(self) == self.tokens

finish(self) == extend(self, <<>>).tokens

\* the tail of paren: the finished child becomes one brace group of the parent
parenPush(self, builder) == [self EXCEPT !.tokens = Append(@, Group(finish(builder)))]

(* ---------------- Generate: the builder calls of each node ------------- *)
Call(op, arg) == [op |-> op, arg |-> arg]

RECURSIVE Concat(_)
Concat(ss) == IF ss = <<>> THEN <<>> ELSE Head(ss) \o Concat(Tail(ss))

\* a Vec<T>::generate that walks the nodes last to first
VecGenerateReversed(xs) == [i \in 1..Len(xs) |-> Call("generate", xs[Len(xs) + 1 - i])]

\* impl Generate for Vec<T>
VecGenerate(xs) == [i \in 1..Len(xs) |-> Call("generate", xs[i])]

\* a boolean attribute whose space is written outside the conditional
AttributeCallsSpaceOutside(a) ==
    IF a.bool
    THEN <<Call("str", <<" ">>), Call("extend", <<IfTok(a.value)>>),
           Call("paren", <<Call("str", a.name)>>)>>
    ELSE <<Call("str", <<" ">>), Call("str", a.name), Call("raw", <<"=", "\"">>),
           Call("expr", a.value), Call("raw", <<"\"">>)>>

AttributeCalls(a) ==
    IF a.bool
    THEN <<Call("extend", <<IfTok(a.value)>>),
           Call("paren", <<Call("str", <<" ">>), Call("str", a.name)>>)>>
    ELSE <<Call("str", <<" ">>), Call("str", a.name), Call("raw", <<"=", "\"">>),
           Call("expr", a.value), Call("raw", <<"\"">>)>>

ClassCalls(classes) ==
    Concat([i \in 1..Len(classes) |->
              (IF i = 1 THEN <<>> ELSE <<Call("str", <<" ">>)>>)
              \o <<Call("expr", classes[i])>>])

ElementGenerate(el) ==
    <<Call("raw", <<"<">>), Call("str", el.name)>>
    \o (IF Len(el.id) > 0
        THEN <<Call("raw", <<" ", "i", "d", "=", "\"">>), Call("expr", el.id[1]),
               Call("raw", <<"\"">>)>>
        ELSE <<>>)
    \o (IF Len(el.classes) > 0
        THEN <<Call("raw", <<" ", "c", "l", "a", "s", "s", "=", "\"">>)>>
             \o ClassCalls(el.classes) \o <<Call("raw", <<"\"">>)>>
        ELSE <<>>)
    \o Concat([i \in 1..Len(el.attributes) |-> AttributeCalls(el.attributes[i])])
    \o <<Call("raw", <<">">>)>>
    \o VecGenerate(el.children)
    \o (IF el.close
        THEN <<Call("raw", <<"<", "/">>), Call("str", el.name), Call("raw", <<">">>)>>
        ELSE <<>>)

TextGenerate(text) ==
    IF text.kind = "String" THEN <<Call("str", text.string)>>
    ELSE <<Call("expr", text.expr)>>

\* an If whose later clauses are independent `if`s instead of `else if`s
IfGenerateIndependent(if_) ==
    Concat([i \in 1..Len(if_.clauses) |->
              <<Call("extend", <<IfTok(if_.clauses[i].test)>>),
                Call("paren", VecGenerate(if_.clauses[i].consequent))>>])
    \o (IF Len(if_.default) > 0
        THEN <<Call("extend", <<ElseTok>>), Call("paren", VecGenerate(if_.default[1]))>>
        ELSE <<>>)

IfGenerate(if_) ==
    Concat([i \in 1..Len(if_.clauses) |->
              <<Call("extend", <<IF i = 1 THEN IfTok(if_.clauses[i].test)
                                 ELSE ElseIfTok(if_.clauses[i].test)>>),
                Call("paren", VecGenerate(if_.clauses[i].consequent))>>])
    \o (IF Len(if_.default) > 0
        THEN <<Call("extend", <<ElseTok>>), Call("paren", VecGenerate(if_.default[1]))>>
        ELSE <<>>)

ForGenerate(for_) ==
    <<Call("extend", <<ForTok(for_.expr)>>), Call("paren", VecGenerate(for_.body))>>

\* impl Generate for Node
NodeGenerate(node) ==
    CASE node.type = "Element" -> ElementGenerate(node)
      [] node.type = "Text" -> TextGenerate(node)
      [] node.type = "If" -> IfGenerate(node)
      [] node.type = "For" -> ForGenerate(node)

(* -------------------- the data a render call reads --------------------- *)
RECURSIVE TestsOfVec(_), TestsOfNode(_)
TestsOfVec(xs) == UNION {TestsOfNode(xs[i]) : i \in 1..Len(xs)}
TestsOfNode(node) ==
    CASE node.type = "Element" ->
            {node.attributes[i].value.name :
                i \in {j \in 1..Len(node.attributes) : node.attributes[j].bool}}
            \cup TestsOfVec(node.children)
      [] node.type = "Text" -> {}
      [] node.type = "If" ->
            {node.clauses[i].test.name : i \in 1..Len(node.clauses)}
            \cup UNION {TestsOfVec(node.clauses[i].consequent) : i \in 1..Len(node.clauses)}
            \cup (IF Len(node.default) > 0 THEN TestsOfVec(node.default[1]) ELSE {})
      [] node.type = "For" -> TestsOfVec(node.body)

RECURSIVE HasForVec(_)
HasFor(node) ==
    CASE node.type = "Element" -> HasForVec(node.children)
      [] node.type = "Text" -> FALSE
      [] node.type = "If" ->
            \/ \E i \in 1..Len(node.clauses) : HasForVec(node.clauses[i].consequent)
            \/ Len(node.default) > 0 /\ HasForVec(node.default[1])
      [] node.type = "For" -> TRUE
HasForVec(xs) == \E i \in 1..Len(xs) : HasFor(xs[i])

\* the values of the tests and the length of the iterable, fixed for one render
Envs(xs) ==
    [test : [TestsOfVec(xs) -> BOOLEAN],
     iters : IF HasForVec(xs) THEN 0..MaxIter ELSE {0}]

(* ------------------------------ state ---------------------------------- *)
VARIABLES
    nodes,      \* Struct.nodes, the root node sequence
    pc,         \* "generate", "render" or "returned"
    calls,      \* the builder calls still to make, next first
    builders,   \* the builders alive, innermost first
    built,      \* the token list spliced into fmt
    env,        \* what the render call reads from self
    frames,     \* the blocks of fmt being executed, innermost first
    sink,       \* the chunks __writer accepted, one per successful write
    faults,     \* the number of writes __writer answered with an error
    result      \* "none", "ok" or "err"

vars == <<nodes, pc, calls, builders, built, env, frames, sink, faults, result>>

genVars == <<calls, builders>>
runVars == <<built, env, frames, sink, faults, result>>

NoEnv == [test |-> <<>>, iters |-> 0]

Init ==
    /\ nodes \in Templates
    /\ pc = "generate"
    /\ calls = VecGenerate(nodes)
    /\ builders = <<BuilderDefault>>
    /\ built = <<>>
    /\ env = NoEnv
    /\ frames = <<>>
    /\ sink = <<>>
    /\ faults = 0
    /\ result = "none"

(* ---------------------------- lowering --------------------------------- *)
NextCall == calls[1]
NextIs(op) == pc = "generate" /\ calls # <<>> /\ NextCall.op = op

\* apply one builder method to the innermost builder
Apply(b) ==
    /\ builders' = <<b>> \o Tail(builders)
    /\ calls' = Tail(calls)
    /\ UNCHANGED <<nodes, pc, runVars>>

Generate ==
    /\ NextIs("generate")
    /\ calls' = NodeGenerate(NextCall.arg) \o Tail(calls)
    /\ UNCHANGED <<nodes, pc, builders, runVars>>

Raw == NextIs("raw") /\ Apply(raw(builders[1], NextCall.arg))

Str == NextIs("str") /\ Apply(str(builders[1], NextCall.arg))

Expr == NextIs("expr") /\ Apply(expr(builders[1], NextCall.arg))

Extend == NextIs("extend") /\ Apply(extend(builders[1], NextCall.arg))

\* paren: a fresh builder, then the closure
ParenEnter ==
    /\ NextIs("paren")
    /\ builders' = <<BuilderDefault>> \o builders
    /\ calls' = NextCall.arg \o <<Call("end paren", <<>>)>> \o Tail(calls)
    /\ UNCHANGED <<nodes, pc, runVars>>

\* paren: the closure has returned
ParenExit ==
    /\ NextIs("end paren")
    /\ builders' = <<parenPush(builders[2], builders[1])>> \o Tail(Tail(builders))
    /\ calls' = Tail(calls)
    /\ UNCHANGED <<nodes, pc, runVars>>

\* to_tokens: builder.finish() gives the body of the generated fmt
Finish ==
    /\ pc = "generate" /\ calls = <<>>
    /\ built' = finish(builders[1])
    /\ pc' = "built"
    /\ UNCHANGED <<nodes, calls, builders, env, frames, sink, faults, result>>

(* ------------------- one call of the generated fmt --------------------- *)
Frame(ops, left) == [ops |-> ops, at |-> 1, left |-> left]

\* fmt is entered: self is destructured and the first statement is next
RenderCall ==
    /\ pc = "built"
    /\ \E e \in Envs(nodes) : env' = e
    /\ frames' = <<Frame(built, 0)>>
    /\ pc' = "render"
    /\ UNCHANGED <<nodes, genVars, built, sink, faults, result>>

Top == frames[1]
AtEnd == Top.at > Len(Top.ops)
Op == Top.ops[Top.at]
AtOp(ts) == pc = "render" /\ ~AtEnd /\ Op.t \in ts

\* the innermost block goes on at statement i
Goto(i) == <<[Top EXCEPT !.at = i]>> \o Tail(frames)
\* the innermost block goes on at i once the group at g has run `times` times
Enter(g, times, i) == <<Frame(Top.ops[g].body, times - 1)>> \o Goto(i)

\* the first statement after the else-if / else arms that start at i
RECURSIVE AfterChain(_, _)
AfterChain(ops, i) ==
    IF i <= Len(ops) /\ ops[i].t \in {"else if", "else"}
    THEN AfterChain(ops, i + 2)
    ELSE i

\* a write whose error is dropped: fmt goes on with the next statement
WriteIgnoringError(chunk) ==
    \E ok \in BOOLEAN :
        /\ IF ok THEN sink' = Append(sink, chunk) /\ faults' = faults
                 ELSE sink' = sink /\ faults' = faults + 1
        /\ frames' = Goto(Top.at + 1)
        /\ UNCHANGED <<nodes, pc, genVars, built, env, result>>

\* `writer.f(..)?`: the write succeeds, or fmt returns the error at once
Write(chunk) ==
    \E ok \in BOOLEAN :
        IF ok
        THEN /\ sink' = Append(sink, chunk)
             /\ frames' = Goto(Top.at + 1)
             /\ UNCHANGED <<nodes, pc, genVars, built, env, faults, result>>
        ELSE /\ faults' = faults + 1
             /\ result' = "err"
             /\ pc' = "returned"
             /\ UNCHANGED <<nodes, genVars, built, env, frames, sink>>

ExecWriteStr == AtOp({"write_str"}) /\ Write(Op.s)

ExecRender == AtOp({"render"}) /\ Write(<<Op.e>>)

\* `if test {..}` and `else if test {..}`
ExecIf ==
    /\ AtOp({"if", "else if"})
    /\ frames' = IF env.test[Op.e]
                 THEN Enter(Top.at + 1, 1, AfterChain(Top.ops, Top.at + 2))
                 ELSE Goto(Top.at + 2)
    /\ UNCHANGED <<nodes, pc, genVars, built, env, sink, faults, result>>

\* `else {..}`, reached when every test before it was false
ExecElse ==
    /\ AtOp({"else"})
    /\ frames' = Enter(Top.at + 1, 1, Top.at + 2)
    /\ UNCHANGED <<nodes, pc, genVars, built, env, sink, faults, result>>

\* `for pat in expr {..}`
ExecFor ==
    /\ AtOp({"for"})
    /\ frames' = IF env.iters > 0
                 THEN Enter(Top.at + 1, env.iters, Top.at + 2)
                 ELSE Goto(Top.at + 2)
    /\ UNCHANGED <<nodes, pc, genVars, built, env, sink, faults, result>>

\* the end of a brace group: the next iteration, or back to the enclosing block
BlockEnd ==
    /\ pc = "render" /\ AtEnd /\ Len(frames) > 1
    /\ frames' = IF Top.left > 0
                 THEN <<Frame(Top.ops, Top.left - 1)>> \o Tail(frames)
                 ELSE Tail(frames)
    /\ UNCHANGED <<nodes, pc, genVars, built, env, sink, faults, result>>

\* Ok(())
Return ==
    /\ pc = "render" /\ AtEnd /\ Len(frames) = 1
    /\ result' = "ok"
    /\ pc' = "returned"
    /\ UNCHANGED <<nodes, genVars, built, env, frames, sink, faults>>

Next ==
    \/ Generate \/ Raw \/ Str \/ Expr \/ Extend \/ ParenEnter \/ ParenExit \/ Finish
    \/ RenderCall \/ ExecWriteStr \/ ExecRender \/ ExecIf \/ ExecElse \/ ExecFor
    \/ BlockEnd \/ Return

Spec == Init /\ [][Next]_vars

(* ------------- what a template denotes, read off the tree -------------- *)
\* the replacement of one character of static text
Entity(ch) ==
    IF ch = "&" THEN <<"&", "a", "m", "p", ";">>
    ELSE IF ch = "<" THEN <<"&", "l", "t", ";">>
    ELSE IF ch = ">" THEN <<"&", "g", "t", ";">>
    ELSE IF ch = "\"" THEN <<"&", "q", "u", "o", "t", ";">>
    ELSE <<ch>>
Escaped(s) == Concat([i \in 1..Len(s) |-> Entity(s[i])])

\* A block is a sequence of events: one per character of static text, one per
\* dynamic expression, one per if-chain (its arms hold blocks), one per loop.
Static(chars) == [i \in 1..Len(chars) |-> [k |-> "static", ch |-> chars[i]]]
ExprEvents(e) ==
    IF e.lit THEN Static(Escaped(e.value)) ELSE <<[k |-> "expr", e |-> e.name]>>
Arm(test, body) == [test |-> test.name, body |-> body]
Chain(arms, default) == [k |-> "chain", arms |-> arms, default |-> default]

AttributeEvents(a) ==
    IF a.bool
    THEN <<Chain(<<Arm(a.value, Static(<<" ">> \o Escaped(a.name)))>>, <<>>)>>
    ELSE Static(<<" ">> \o Escaped(a.name) \o <<"=", "\"">>)
         \o ExprEvents(a.value) \o Static(<<"\"">>)

RECURSIVE EventsVec(_), EventsNode(_)
EventsVec(xs) == Concat([i \in 1..Len(xs) |-> EventsNode(xs[i])])
EventsNode(node) ==
    CASE node.type = "Text" ->
            IF node.kind = "String" THEN Static(Escaped(node.string))
            ELSE ExprEvents(node.expr)
      [] node.type = "Element" ->
            Static(<<"<">> \o Escaped(node.name))
            \o (IF Len(node.id) > 0
                THEN Static(<<" ", "i", "d", "=", "\"">>) \o ExprEvents(node.id[1])
                     \o Static(<<"\"">>)
                ELSE <<>>)
            \o (IF Len(node.classes) > 0
                THEN Static(<<" ", "c", "l", "a", "s", "s", "=", "\"">>)
                     \o Concat([i \in 1..Len(node.classes) |->
                                  (IF i > 1 THEN Static(<<" ">>) ELSE <<>>)
                                  \o ExprEvents(node.classes[i])])
                     \o Static(<<"\"">>)
                ELSE <<>>)
            \o Concat([i \in 1..Len(node.attributes) |-> AttributeEvents(node.attributes[i])])
            \o Static(<<">">>)
            \o EventsVec(node.children)
            \o (IF node.close THEN Static(<<"<", "/">> \o Escaped(node.name) \o <<">">>)
                ELSE <<>>)
      [] node.type = "If" ->
            <<Chain([i \in 1..Len(node.clauses) |->
                        Arm(node.clauses[i].test, EventsVec(node.clauses[i].consequent))],
                    IF Len(node.default) > 0 THEN <<EventsVec(node.default[1])>> ELSE <<>>)>>
      [] node.type = "For" -> <<[k |-> "for", body |-> EventsVec(node.body)]>>

IsStatic(ev) == ev.k = "static"

\* the maximal contiguous static runs of a block, as texts, in order
RECURSIVE RunsFrom(_, _)
RunsFrom(evs, run) ==
    IF evs = <<>> THEN (IF run = <<>> THEN <<>> ELSE <<run>>)
    ELSE IF IsStatic(Head(evs)) THEN RunsFrom(Tail(evs), Append(run, Head(evs).ch))
    ELSE (IF run = <<>> THEN <<>> ELSE <<run>>) \o RunsFrom(Tail(evs), <<>>)
Runs(evs) == RunsFrom(evs, <<>>)

\* the blocks directly inside a block, in order
SubBlocks(evs) ==
    Concat([i \in 1..Len(evs) |->
              CASE evs[i].k = "chain" ->
                      [j \in 1..Len(evs[i].arms) |-> evs[i].arms[j].body] \o evs[i].default
                [] evs[i].k = "for" -> <<evs[i].body>>
                [] OTHER -> <<>>])

\* the write-literal texts and the brace groups of a token list, in order
SelectT(tokens, t) == SelectSeq(tokens, LAMBDA tok : tok.t = t)
WriteTexts(tokens) == LET ws == SelectT(tokens, "write_str") IN [i \in 1..Len(ws) |-> ws[i].s]
GroupBodies(tokens) == LET gs == SelectT(tokens, "group") IN [i \in 1..Len(gs) |-> gs[i].body]

RECURSIVE OneWritePerRun(_, _)
OneWritePerRun(tokens, evs) ==
    /\ WriteTexts(tokens) = Runs(evs)
    /\ Len(GroupBodies(tokens)) = Len(SubBlocks(evs))
    /\ \A j \in 1..Len(GroupBodies(tokens)) :
          OneWritePerRun(GroupBodies(tokens)[j], SubBlocks(evs)[j])

(* ------------------------------- C1 ------------------------------------ *)
\* C1: in the finished token list of the root block and of every nested brace
\* group, the write-literal operations are exactly the maximal contiguous
\* static runs of that block, one write per run, holding the whole run.
C1_OneWritePerRun == pc = "built" => OneWritePerRun(built, EventsVec(nodes))

\* adjacent static fragments of two sibling nodes share one write, and a
\* nested block holds a run of its own
C1_Witness ==
    /\ pc = "built"
    /\ Len(nodes) = 3
    /\ nodes[1] = TextString(AB)
    /\ Len(WriteTexts(built)) = 2
    /\ \E j \in 1..Len(GroupBodies(built)) : Len(WriteTexts(GroupBodies(built)[j])) >= 2

(* ------------------------------- C2 ------------------------------------ *)
\* C2: Builder::str appends to the pending buffer the text with each of
\* & < > " replaced once by its entity, in order, every other character
\* unchanged; what the buffer held before stays, and no token is emitted.
C2_StrEscapes ==
    [][NextIs("str") =>
          /\ builders'[1].buffer = builders[1].buffer \o Escaped(NextCall.arg)
          /\ builders'[1].tokens = builders[1].tokens]_vars

\* "<p></p>" was pending when a&b was appended
C2_Witness ==
    /\ pc = "generate" /\ calls = <<>>
    /\ Len(nodes) = 2 /\ nodes[2] = TextString(<<"<", ">", "\"">>)
    /\ builders[1].buffer =
          <<"<", "p", ">", "<", "/", "p", ">",
            "&", "l", "t", ";", "&", "g", "t", ";", "&", "q", "u", "o", "t", ";">>

(* ------------------------------- C5 ------------------------------------ *)
\* C5: lowering an expression that is a string literal of value s does to the
\* builder what lowering the literal text s does: the escaped s is appended
\* to the pending buffer, nothing is flushed and no token is emitted; so
\* the literal expression "a&b" and the literal text "a&b" give the same
\* token list and the same output, a&amp;b.
AmpAB == <<"a", "&", "a", "m", "p", ";", "b">>
C5_LiteralFolding ==
    /\ [][NextIs("expr") /\ NextCall.arg.lit =>
            /\ builders'[1].buffer = builders[1].buffer \o Escaped(NextCall.arg.value)
            /\ builders'[1].tokens = builders[1].tokens
            /\ builders' = <<str(builders[1], NextCall.arg.value)>> \o Tail(builders)]_vars
    /\ [](result = "ok" /\ nodes \in {<<TextExpr(LitStr(AB))>>, <<TextString(AB)>>} =>
            built = <<WriteStr(AmpAB)>> /\ sink = <<AmpAB>>)

\* the literal expression "a&b" alone was lowered and rendered
C5_Witness ==
    /\ result = "ok"
    /\ nodes = <<TextExpr(LitStr(AB))>>
    /\ sink = <<AmpAB>>

(* ------------------------------- C9 ------------------------------------ *)
\* C9: paren runs its body against a fresh builder with an empty buffer and
\* no tokens; while the body runs and when paren returns, the pending buffer
\* and the earlier tokens of the parent are as they were; the parent gains
\* exactly one brace group, which holds every token of the body followed by
\* one write of whatever the body left pending.
C9_ParenFrame ==
    [][/\ NextIs("paren") =>
            builders' = <<BuilderDefault>> \o builders
       /\ pc = "generate" /\ Len(builders') = Len(builders) =>
            Tail(builders') = Tail(builders)
       /\ NextIs("end paren") =>
            /\ Len(builders') = Len(builders) - 1
            /\ Tail(builders') = Tail(Tail(builders))
            /\ builders'[1].buffer = builders[2].buffer
            /\ builders'[1].tokens =
                  Append(builders[2].tokens,
                         Group(builders[1].tokens
                               \o (IF builders[1].buffer # <<>>
                                   THEN <<WriteStr(builders[1].buffer)>>
                                   ELSE <<>>)))]_vars

\* a body that emitted a token and left text pending is about to return to
\* a parent that already holds tokens
C9_Witness ==
    /\ NextIs("end paren")
    /\ builders[1].tokens # <<>>
    /\ builders[1].buffer # <<>>
    /\ Len(builders[2].tokens) >= 2
    /\ Len(builders) >= 3

(* ------------------------------- C10 ----------------------------------- *)
\* every else-if / else keyword directly follows a brace group, and every
\* brace group directly follows an if / else-if / else / for keyword
RECURSIVE KeywordsAdjacent(_)
KeywordsAdjacent(tokens) ==
    \A i \in 1..Len(tokens) :
        /\ tokens[i].t \in {"else if", "else"} => i > 1 /\ tokens[i - 1].t = "group"
        /\ tokens[i].t = "group" =>
              /\ i > 1 /\ tokens[i - 1].t \in {"if", "else if", "else", "for"}
              /\ KeywordsAdjacent(tokens[i].body)

\* C10: whenever paren is invoked the pending buffer of the builder it is
\* invoked on is empty, so in the finished token list each brace group
\* directly follows its keyword and no write-literal stands between the
\* block of a clause and the following else-if / else.
C10_EmptyBufferAtParen ==
    /\ NextIs("paren") => builders[1].buffer = <<>>
    /\ pc = "built" => KeywordsAdjacent(built)

\* paren is invoked for an else arm right after static text was flushed
\* ahead of the chain
C10_Witness ==
    /\ NextIs("paren")
    /\ Len(builders[1].tokens) >= 5
    /\ builders[1].tokens[1].t = "write_str"
    /\ builders[1].tokens[Len(builders[1].tokens)].t = "else"

(* ------------- what one render of a template writes -------------------- *)
RECURSIVE Repeat(_, _)
Repeat(x, n) == IF n = 0 THEN <<>> ELSE x \o Repeat(x, n - 1)

\* the body an If selects: that of the first clause whose test is true, else
\* the default, else none
SelectedBody(if_, e) ==
    LET true == {i \in 1..Len(if_.clauses) : e.test[if_.clauses[i].test.name]}
    IN  IF true # {} THEN if_.clauses[CHOOSE i \in true : \A j \in true : i <= j].consequent
        ELSE IF Len(if_.default) > 0 THEN if_.default[1]
        ELSE <<>>

ValueOut(x) == IF x.lit THEN Escaped(x.value) ELSE <<x.name>>

AttributeOut(a, e) ==
    IF a.bool THEN (IF e.test[a.value.name] THEN <<" ">> \o Escaped(a.name) ELSE <<>>)
    ELSE <<" ">> \o Escaped(a.name) \o <<"=", "\"">> \o ValueOut(a.value) \o <<"\"">>

RECURSIVE VecOut(_, _), NodeOut(_, _)
VecOut(xs, e) == Concat([i \in 1..Len(xs) |-> NodeOut(xs[i], e)])
NodeOut(node, e) ==
    CASE node.type = "Text" ->
            IF node.kind = "String" THEN Escaped(node.string) ELSE ValueOut(node.expr)
      [] node.type = "Element" ->
            <<"<">> \o Escaped(node.name)
            \o (IF Len(node.id) > 0
                THEN <<" ", "i", "d", "=", "\"">> \o ValueOut(node.id[1]) \o <<"\"">>
                ELSE <<>>)
            \o (IF Len(node.classes) > 0
                THEN <<" ", "c", "l", "a", "s", "s", "=", "\"">>
                     \o Concat([i \in 1..Len(node.classes) |->
                                  (IF i > 1 THEN <<" ">> ELSE <<>>)
                                  \o ValueOut(node.classes[i])])
                     \o <<"\"">>
                ELSE <<>>)
            \o Concat([i \in 1..Len(node.attributes) |-> AttributeOut(node.attributes[i], e)])
            \o <<">">>
            \o VecOut(node.children, e)
            \o (IF node.close THEN <<"<", "/">> \o Escaped(node.name) \o <<">">> ELSE <<>>)
      [] node.type = "If" -> VecOut(SelectedBody(node, e), e)
      [] node.type = "For" -> Repeat(VecOut(node.body, e), e.iters)

\* the text in the sink
Output == Concat(sink)

IsPrefix(a, b) == Len(a) <= Len(b) /\ SubSeq(b, 1, Len(a)) = a

(* ------------------------------- C3 ------------------------------------ *)
\* C3: a render of an If writes what the body of the first clause whose test
\* is true writes, else what the default writes if there is one, else
\* nothing; no later clause and no default runs after a true test.
C3_OneBranch ==
    result = "ok" /\ Len(nodes) = 1 /\ nodes[1].type = "If" =>
        Output = VecOut(SelectedBody(nodes[1], env), env)

\* both tests are true, the three bodies write different things, and only
\* the first has run
C3_Witness ==
    /\ result = "ok"
    /\ nodes = <<IfNode(<<Clause(Dyn("$c"), <<TextString(AB)>>),
                          Clause(Dyn("$d"), <<TextExpr(Dyn("$x"))>>)>>,
                        <<<<TextExpr(Dyn("$y"))>>>>)>>
    /\ env.test["$c"] /\ env.test["$d"]
    /\ sink = <<AmpAB>>

(* ------------------------------- C4 ------------------------------------ *)
\* C4: the statements of fmt run in order; the first write the sink refuses
\* makes fmt return the error at once: no statement runs after it, the
\* write is not tried again, and the sink keeps what it had accepted, a
\* prefix of what the whole render writes; when no write is refused fmt
\* returns Ok after writing all of it.
C4_FirstErrorReturns ==
    /\ [](faults <= 1)
    /\ [](faults = 1 <=> result = "err")
    /\ [](result = "err" => pc = "returned" /\ IsPrefix(Output, VecOut(nodes, env)))
    /\ [](result = "ok" => Output = VecOut(nodes, env))
    /\ [][IsPrefix(sink, sink')]_vars
    /\ [][result # "none" => UNCHANGED <<sink, frames, faults, result, pc>>]_vars

\* a write was refused in the second iteration of a loop nested in other
\* blocks, after other writes had been accepted
C4_Witness ==
    /\ result = "err"
    /\ Len(frames) >= 3
    /\ \E i \in 1..Len(frames) : frames[i].left > 0
    /\ Len(sink) >= 3
    /\ Top.at <= Len(Top.ops)

(* ------------------------------- C6 ------------------------------------ *)
BoolAttributes(el) == SelectSeq(el.attributes, LAMBDA a : a.bool)

\* C6: a boolean attribute lowers to `if value { write " name" }`: one
\* leading space, the name, no '=' and no trailing space; a render writes
\* " name" at the attribute's place when the value is true and nothing for
\* it when the value is false, the rest of the start tag being written in
\* order around it.
C6_BooleanAttribute ==
    Len(nodes) = 1 /\ nodes[1].type = "Element" /\ BoolAttributes(nodes[1]) # <<>>
    /\ SubBlocks(EventsVec(nodes[1].children)) = <<>>
    =>  LET bs == BoolAttributes(nodes[1])
        IN  /\ pc = "built" =>
                /\ SelectT(built, "if") = [k \in 1..Len(bs) |-> IfTok(bs[k].value)]
                /\ GroupBodies(built) =
                      [k \in 1..Len(bs) |-> <<WriteStr(<<" ">> \o Escaped(bs[k].name))>>]
            /\ result = "ok" => Output = VecOut(nodes, env)

\* the start tag <a h="&amp;" ck> with the value of ck true
C6_Witness ==
    /\ result = "ok"
    /\ Len(nodes) = 1 /\ nodes[1].type = "Element"
    /\ nodes[1].attributes = <<Attr(<<"h">>, LitStr(<<"&">>), FALSE),
                               Attr(<<"c", "k">>, Dyn("$c"), TRUE)>>
    /\ env.test["$c"]
    /\ \E i \in 1..Len(sink) : sink[i] = <<" ", "c", "k">>

(* ------------------------------- C7 ------------------------------------ *)
\* the static runs and the dynamic operations of a block and of every block
\* inside it
RECURSIVE AllRuns(_), AllDynamic(_)
AllRuns(evs) ==
    Len(Runs(evs))
    + (LET bs == SubBlocks(evs)
           sum[j \in 0..Len(bs)] == IF j = 0 THEN 0 ELSE sum[j - 1] + AllRuns(bs[j])
       IN  sum[Len(bs)])
AllDynamic(evs) ==
    Len(SelectSeq(evs, LAMBDA ev : ev.k = "expr"))
    + (LET bs == SubBlocks(evs)
           sum[j \in 0..Len(bs)] == IF j = 0 THEN 0 ELSE sum[j - 1] + 1 + AllDynamic(bs[j])
       IN  sum[Len(bs)])

\* the block an if-chain event selects
SelectedArm(ev, e) ==
    LET true == {i \in 1..Len(ev.arms) : e.test[ev.arms[i].test]}
    IN  IF true # {} THEN ev.arms[CHOOSE i \in true : \A j \in true : i <= j].body
        ELSE IF Len(ev.default) > 0 THEN ev.default[1]
        ELSE <<>>

\* the static runs and the expression operations of the blocks one render
\* executes, each counted once per execution
RECURSIVE WriteCalls(_, _)
WriteCalls(evs, e) ==
    Len(Runs(evs))
    + Len(SelectSeq(evs, LAMBDA ev : ev.k = "expr"))
    + (LET sum[j \in 0..Len(evs)] ==
               IF j = 0 THEN 0
               ELSE sum[j - 1]
                    + (CASE evs[j].k = "chain" -> WriteCalls(SelectedArm(evs[j], e), e)
                         [] evs[j].k = "for" -> e.iters * WriteCalls(evs[j].body, e)
                         [] OTHER -> 0)
       IN  sum[Len(evs)])

\* C7 as stated: a render makes as many sink writes as the template has
\* maximal static runs plus dynamic operations (expressions, branch entries,
\* loop entries).
C7_WritesAsStated ==
    result = "ok" => Len(sink) = AllRuns(EventsVec(nodes)) + AllDynamic(EventsVec(nodes))

\* C7 amended: a render that returns Ok makes one sink write per maximal
\* static run and one per dynamic expression of every block it executes,
\* counted once per execution (the root once, the selected arm of an if-chain
\* once, a loop body once per iteration); entering a branch or a loop
\* writes nothing.
C7_WritesPerExecutedBlock ==
    result = "ok" => Len(sink) = WriteCalls(EventsVec(nodes), env)

\* a loop body with a run and an expression ran twice inside a taken branch
C7_Witness ==
    /\ result = "ok"
    /\ nodes \in Nested
    /\ env.iters = 2 /\ env.test["$c"] /\ ~env.test["$d"]
    /\ Len(sink) >= 6

(* ------------------------------- C8 ------------------------------------ *)
\* C8: a render writes, for each node in declaration order and depth first,
\* for an Element: '<' name (names are written escaped, as all static text),
\* ' id="' id '"' if there is an id, ' class="'
\* classes joined by single spaces '"' if there is a class, the attributes
\* in declaration order, '>', the children in declaration order, and
\* '</' name '>' iff close is set; <p></p> for the bare closed element p.
C8_DeclarationOrder ==
    /\ result = "ok" => Output = VecOut(nodes, env)
    /\ pc = "built" /\ nodes = <<Elem(<<"p">>, <<>>, <<>>, <<>>, <<>>, TRUE)>> =>
          built = <<WriteStr(<<"<", "p", ">", "<", "/", "p", ">">>)>>

\* an element with an id, two classes, two attributes, a child and a close tag
C8_Witness ==
    /\ result = "ok"
    /\ Len(nodes) = 1 /\ nodes[1].type = "Element"
    /\ Len(nodes[1].id) = 1 /\ Len(nodes[1].classes) = 2 /\ Len(nodes[1].attributes) = 2
    /\ Len(nodes[1].children) = 1 /\ nodes[1].close
    /\ Len(sink) >= 4

====
